---- MODULE Spec2Model ----
(***************************************************************************)
(* Model of the selection locator getSelectionPosition of the open_in_web  *)
(* script (src/unnamed/part_000, lines 113-210).                           *)
(*                                                                         *)
(* Texts are sequences of one-character strings.  The optional hint line   *)
(* and the nullable match position are boxed: Null is the empty tuple and  *)
(* a present number n is <<n>>.  The returned span is a record, or Null.   *)
(* effects is the trace of what the program did to the outside world: file *)
(* reads, log messages, process exits, each tagged with the function that  *)
(* did it.  main is the frame of the command-line entry point: its         *)
(* position, the parsed arguments and the locals the URL is built from.    *)
(* calls holds, for each call site, the parameters and locals of its       *)
(* invocation of the locator when several are in flight.  jira is the      *)
(* frame of the entry point of the Jira script and branch the frame of its *)
(* generateGitBranchName (src/extract_coords.ts).                          *)
(***************************************************************************)
EXTENDS Integers, Sequences, FiniteSets

VARIABLES pc, content, selection, hintLine, fileLines, selectionLines,
          matchStartLine, result, effects, main, calls, jira, branch

vars == <<pc, content, selection, hintLine, fileLines, selectionLines,
          matchStartLine, result, effects, main, calls, jira, branch>>

(* ------------------------------ bounds --------------------------------- *)

\* Longest document text, in characters.
MaxDocLen == 4

\* Longest selection text, in characters.
MaxSelLen == 3

\* Longest document and selection texts of the line-break specification.
MaxBreakDocLen == 3

MaxBreakSelLen == 2

\* Longest document and selection texts of the command-line specification.
MaxCliDocLen == 3

MaxCliSelLen == 2

\* Call sites of the specification of interleaved invocations.
NumCalls == 2

\* Longest short summary of the branch name specification.
MaxBranchTextLen == 3

(* ------------------------------ values --------------------------------- *)

Null == <<>>

Some(n) == <<n>>

LF == "\n"

CR == "\r"

\* Characters of the document texts.
DocChars == {"a", "b", LF, CR}

\* Characters of the selection texts.
SelChars == {"a", LF, CR}

\* Files and snippets end their lines with LF or with CRLF.
LineBreaksOK(s) ==
    \A i \in 1..Len(s) : s[i] = CR => (i < Len(s) /\ s[i + 1] = LF)

Texts(chars, n) ==
    {s \in UNION {[1..k -> chars] : k \in 0..n} : LineBreaksOK(s)}

\* The line and the snippet of the documented column example.
ExampleLine ==
    <<" ", " ", "c", "o", "n", "s", "t", " ", "x", " ", "=", " ", "1", ";",
      " ", "/", "/", " ", "c", "o", "m", "m", "e", "n", "t">>

ExampleSelection ==
    <<"c", "o", "n", "s", "t", " ", "x", " ", "=", " ", "1", ";">>

\* The document and the snippet of the documented worked example.
ExampleDocument ==
    <<"f", "u", "n", "c", "t", "i", "o", "n", " ", "f", "(", ")", " ", "{",
      "\n", " ", " ", "r", "e", "t", "u", "r", "n", " ", "1", ";", "\n",
      "}">>

ExampleReturn ==
    <<"r", "e", "t", "u", "r", "n", " ", "1", ";">>

Documents == Texts(DocChars, MaxDocLen) \cup {ExampleLine, ExampleDocument}

Selections ==
    Texts(SelChars, MaxSelLen) \cup {ExampleSelection, ExampleReturn}

\* What Deno.readFile yields for a path that cannot be read: a rejection.  It
\* is no text: texts are made of one-character strings.
Unreadable == <<"NotFound">>

\* What the file at filePath holds: a text, or nothing readable.
Files == Documents \cup {Unreadable}

\* Texts of the line-break specification: CR may stand anywhere.
BreakChars == {"a", LF, CR}

BreakTexts(n) == UNION {[1..k -> BreakChars] : k \in 0..n}

\* Absent, below the first line, every line a document can have, and beyond.
Hints == {Null} \cup {Some(n) : n \in 0..(MaxDocLen + 2)}

(* --------------------------- string library ---------------------------- *)

\* Faulty replaceCRLF: without the g flag only the first CRLF is replaced.
replaceCRLF_FirstOnly(s) ==
    IF \E i \in 1..(Len(s) - 1) : s[i] = CR /\ s[i + 1] = LF
    THEN LET p == CHOOSE i \in 1..(Len(s) - 1) :
                      /\ s[i] = CR /\ s[i + 1] = LF
                      /\ \A j \in 1..(i - 1) : ~(s[j] = CR /\ s[j + 1] = LF)
         IN SubSeq(s, 1, p - 1) \o SubSeq(s, p + 1, Len(s))
    ELSE s

\* String.prototype.replace(/\r\n/g, "\n")
RECURSIVE replaceCRLF(_)
replaceCRLF(s) ==
    IF Len(s) = 0 THEN <<>>
    ELSE IF Len(s) >= 2 /\ s[1] = CR /\ s[2] = LF
         THEN <<LF>> \o replaceCRLF(SubSeq(s, 3, Len(s)))
         ELSE <<s[1]>> \o replaceCRLF(Tail(s))

\* String.prototype.split("\n"): always at least one line.
RECURSIVE splitLF(_)
splitLF(s) ==
    IF \A i \in 1..Len(s) : s[i] # LF THEN <<s>>
    ELSE LET p == CHOOSE i \in 1..Len(s) :
                      s[i] = LF /\ \A j \in 1..(i - 1) : s[j] # LF
         IN <<SubSeq(s, 1, p - 1)>> \o splitLF(SubSeq(s, p + 1, Len(s)))

\* target occurs in line at 0-based offset off.
OccursAt(line, target, off) ==
    /\ off >= 0
    /\ off + Len(target) <= Len(line)
    /\ \A j \in 1..Len(target) : line[off + j] = target[j]

\* String.prototype.includes
includes(line, target) ==
    \E off \in 0..Len(line) : OccursAt(line, target, off)

\* String.prototype.indexOf: 0-based offset of the first occurrence, or -1.
indexOf(line, target) ==
    IF \E off \in 0..Len(line) : OccursAt(line, target, off)
    THEN CHOOSE off \in 0..Len(line) :
             /\ OccursAt(line, target, off)
             /\ \A o \in 0..(off - 1) : ~OccursAt(line, target, o)
    ELSE -1

(* ------------------------------ locator -------------------------------- *)

\* Faulty matchesAt: only the first selection line is compared.
matchesAt_FirstLineOnly(fl, sl, lineIdx) ==
    IF lineIdx < 0 \/ lineIdx + Len(sl) > Len(fl) THEN FALSE
    ELSE includes(fl[lineIdx + 1], sl[1])

\* Faulty matchesAt: every selection line is compared with file line lineIdx.
matchesAt_SameFileLine(fl, sl, lineIdx) ==
    IF lineIdx < 0 \/ lineIdx + Len(sl) > Len(fl) THEN FALSE
    ELSE \A i \in 0..(Len(sl) - 1) : includes(fl[lineIdx + 1], sl[i + 1])

matchesAt(fl, sl, lineIdx) ==
    IF lineIdx < 0 \/ lineIdx + Len(sl) > Len(fl) THEN FALSE
    ELSE \A i \in 0..(Len(sl) - 1) : includes(fl[lineIdx + i + 1], sl[i + 1])

\* Faulty findColumn: the 0-based offset is returned.
findColumn_ZeroBased(line, target) ==
    LET col == indexOf(line, target)
    IN IF col = -1 THEN -1 ELSE col

\* Faulty findColumn: offset 0 is taken for "not found".
findColumn_FalsyZero(line, target) ==
    LET col == indexOf(line, target)
    IN IF col = -1 \/ col = 0 THEN -1 ELSE col + 1

\* Faulty findColumn: an empty target is never found.
findColumn_EmptyNotFound(line, target) ==
    LET col == indexOf(line, target)
    IN IF col = -1 \/ target = <<>> THEN -1 ELSE col + 1

findColumn(line, target) ==
    LET col == indexOf(line, target)
    IN IF col = -1 THEN -1 ELSE col + 1

\* The loop of scan: the first index in scan order that matches, boxed as a
\* 1-based line, or Null when the loop runs out.
RECURSIVE scanLoop(_, _, _, _)
scanLoop(fl, sl, currentLineIndex, direction) ==
    IF (IF direction = "up" THEN currentLineIndex >= 0
                            ELSE currentLineIndex <= Len(fl) - Len(sl))
    THEN IF matchesAt(fl, sl, currentLineIndex)
         THEN Some(currentLineIndex + 1)
         ELSE scanLoop(fl, sl,
                       currentLineIndex + (IF direction = "up" THEN -1 ELSE 1),
                       direction)
    ELSE Null

\* scan assigns matchStartLine on a match and leaves it alone otherwise; the
\* operator returns the value matchStartLine has after the call.
scan(fl, sl, startLineIndex, direction, msl) ==
    LET found == scanLoop(fl, sl, startLineIndex, direction)
    IN IF found # Null THEN found ELSE msl

\* Faulty hintUsable: the line after the last one is accepted.
hintUsable_OneBeyond(fl, hint) ==
    hint # Null /\ hint[1] > 0 /\ hint[1] <= Len(fl) + 1

hintUsable(fl, hint) ==
    hint # Null /\ hint[1] > 0 /\ hint[1] <= Len(fl)

\* Faulty hintedSearch: the 1-based hint is used as a 0-based index.
hintedSearch_OneBased(fl, sl, hint) ==
    IF hint # Null /\ hint[1] > 0 /\ hint[1] <= Len(fl)
    THEN LET zeroBasedHintLine == hint[1]
             down == scan(fl, sl, zeroBasedHintLine, "down", Null)
         IN IF down = Null
            THEN scan(fl, sl, zeroBasedHintLine - 1, "up", down)
            ELSE down
    ELSE Null

\* Faulty hintedSearch: the scan up from the hint is missing.
hintedSearch_NoBackward(fl, sl, hint) ==
    IF hint # Null /\ hint[1] > 0 /\ hint[1] <= Len(fl)
    THEN scan(fl, sl, hint[1] - 1, "down", Null)
    ELSE Null

\* Faulty hintedSearch: the scan up skips the line just above the hint.
hintedSearch_BackwardGap(fl, sl, hint) ==
    IF hintUsable(fl, hint)
    THEN LET zeroBasedHintLine == hint[1] - 1
             down == scan(fl, sl, zeroBasedHintLine, "down", Null)
         IN IF down = Null
            THEN scan(fl, sl, zeroBasedHintLine - 2, "up", down)
            ELSE down
    ELSE Null

\* The hinted attempt: down from the hint, then up from just above it.
hintedSearch(fl, sl, hint) ==
    IF hintUsable(fl, hint)
    THEN LET zeroBasedHintLine == hint[1] - 1
             down == scan(fl, sl, zeroBasedHintLine, "down", Null)
         IN IF down = Null
            THEN scan(fl, sl, zeroBasedHintLine - 1, "up", down)
            ELSE down
    ELSE Null

\* Faulty search: the full scan runs upward, so it tests index 0 only.
search_FallbackUp(fl, sl, hint) ==
    LET hinted == hintedSearch(fl, sl, hint)
    IN IF hinted = Null THEN scan(fl, sl, 0, "up", hinted) ELSE hinted

\* Faulty search: the full scan runs only when no hint was given.
search_FallbackUnhintedOnly(fl, sl, hint) ==
    IF hint = Null THEN scan(fl, sl, 0, "down", Null)
    ELSE hintedSearch(fl, sl, hint)

\* Faulty search: there is no full scan after the hinted attempt.
search_NoFallback(fl, sl, hint) == hintedSearch(fl, sl, hint)

\* The value of matchStartLine when the search is over.
search(fl, sl, hint) ==
    LET hinted == hintedSearch(fl, sl, hint)
    IN IF hinted = Null THEN scan(fl, sl, 0, "down", hinted) ELSE hinted

\* Faulty spanOf: endLine is left 0-based.
spanOf_EndLineIndex(fl, sl, msl) ==
    LET actualStartLineIndex == msl[1] - 1
        actualEndLineIndex == actualStartLineIndex + Len(sl) - 1
        startColumn == findColumn(fl[actualStartLineIndex + 1], sl[1])
        endColumnOfLastSelectionLineStart ==
            findColumn(fl[actualEndLineIndex + 1], sl[Len(sl)])
    IN IF startColumn = -1 \/ endColumnOfLastSelectionLineStart = -1
       THEN Null
       ELSE [startLine |-> msl[1],
             startColumn |-> startColumn,
             endLine |-> actualEndLineIndex,
             endColumn |-> endColumnOfLastSelectionLineStart
                           + Len(sl[Len(sl)]) - 1]

\* Faulty spanOf: endColumn is the column after the last character.
spanOf_ExclusiveEnd(fl, sl, msl) ==
    LET actualStartLineIndex == msl[1] - 1
        actualEndLineIndex == actualStartLineIndex + Len(sl) - 1
        startColumn == findColumn(fl[actualStartLineIndex + 1], sl[1])
        endColumnOfLastSelectionLineStart ==
            findColumn(fl[actualEndLineIndex + 1], sl[Len(sl)])
    IN IF startColumn = -1 \/ endColumnOfLastSelectionLineStart = -1
       THEN Null
       ELSE [startLine |-> msl[1],
             startColumn |-> startColumn,
             endLine |-> actualEndLineIndex + 1,
             endColumn |-> endColumnOfLastSelectionLineStart
                           + Len(sl[Len(sl)])]

\* The span built from a match, or Null when a column lookup fails.
\* Faulty spanOf: endColumn is the end of the last matched line.
spanOf_EndOfLine(fl, sl, msl) ==
    LET actualStartLineIndex == msl[1] - 1
        actualEndLineIndex == actualStartLineIndex + Len(sl) - 1
        startColumn == findColumn(fl[actualStartLineIndex + 1], sl[1])
        endColumnOfLastSelectionLineStart ==
            findColumn(fl[actualEndLineIndex + 1], sl[Len(sl)])
    IN IF startColumn = -1 \/ endColumnOfLastSelectionLineStart = -1
       THEN Null
       ELSE [startLine |-> msl[1],
             startColumn |-> startColumn,
             endLine |-> actualEndLineIndex + 1,
             endColumn |-> Len(fl[actualEndLineIndex + 1])]

spanOf(fl, sl, msl) ==
    LET actualStartLineIndex == msl[1] - 1
        actualEndLineIndex == actualStartLineIndex + Len(sl) - 1
        startColumn == findColumn(fl[actualStartLineIndex + 1], sl[1])
        endColumnOfLastSelectionLineStart ==
            findColumn(fl[actualEndLineIndex + 1], sl[Len(sl)])
    IN IF startColumn = -1 \/ endColumnOfLastSelectionLineStart = -1
       THEN Null
       ELSE [startLine |-> msl[1],
             startColumn |-> startColumn,
             endLine |-> actualEndLineIndex + 1,
             endColumn |-> endColumnOfLastSelectionLineStart
                           + Len(sl[Len(sl)]) - 1]

toFileLines(text) == splitLF(replaceCRLF(text))

\* Faulty toSelectionLines: empty lines are dropped.
toSelectionLines_DropEmpty(text) ==
    SelectSeq(splitLF(replaceCRLF(text)), LAMBDA l : l # <<>>)

toSelectionLines(text) == splitLF(replaceCRLF(text))

\* The whole function, on the text of the file.
getSelectionPosition(text, sel, hint) ==
    LET fl == toFileLines(text)
        sl == toSelectionLines(sel)
        msl == search(fl, sl, hint)
    IN IF msl = Null THEN Null ELSE spanOf(fl, sl, msl)

(* ------------------------------ actions -------------------------------- *)

\* An effect of the locator on the outside world.
LocatorEffect(op) == [by |-> "getSelectionPosition", op |-> op]

\* The frame of the Jira script's main before its arguments are parsed; where
\* the script does not run, jira is Null.
NoJira ==
    [pc |-> "none", command |-> Null, credentials |-> FALSE,
     flags |-> [title |-> Null, project |-> Null, issuetype |-> Null,
                issueType |-> Null, suffix |-> Null, checkout |-> FALSE,
                open |-> FALSE],
     issueType |-> "", assigneeId |-> Null, created |-> Null,
     newTicketInfo |-> Null, branchName |-> <<>>]

\* The frame of generateGitBranchName before it is called; where it is not
\* called, branch is Null.
NoBranch ==
    [pc |-> "none", key |-> <<>>, summary |-> <<>>, suffix |-> Null,
     normalizedContent |-> <<>>, branchName |-> <<>>]

\* The frame of main before its arguments are parsed; where the locator is
\* called on its own, main is Null.
NoMain ==
    [pc |-> "none", selectionTextFromArg |-> Null, filePath |-> Null,
     parsedLineStart |-> Null, parsedLineEnd |-> Null,
     finalLineStart |-> Null, finalLineEnd |-> Null,
     providerHostname |-> Null, finalUrlToOpen |-> Null, exitCode |-> Null]

Init ==
    /\ pc = "read"
    /\ main = Null
    /\ content \in Files
    /\ selection \in Selections
    /\ hintLine \in Hints
    /\ fileLines = <<>>
    /\ selectionLines = <<>>
    /\ matchStartLine = Null
    /\ result = Null
    /\ effects = <<>>
    /\ calls = <<>>
    /\ jira = Null
    /\ branch = Null

\* Faulty ReadAndSplit: a failed read is swallowed and taken as an empty file.
ReadAndSplit_ErrorSwallowed ==
    /\ pc = "read"
    /\ effects' = Append(effects, LocatorEffect("readFile"))
    /\ fileLines' = IF content = Unreadable THEN toFileLines(<<>>)
                    ELSE toFileLines(content)
    /\ selectionLines' = toSelectionLines(selection)
    /\ pc' = "search"
    /\ UNCHANGED <<content, selection, hintLine, matchStartLine, result, main, calls, jira, branch>>

\* Lines 123-129: the locator reads the file itself; a failed read rejects the
\* call, otherwise the text is decoded (utf-8, non-fatal), normalised and split.
ReadAndSplit ==
    /\ pc = "read"
    /\ effects' = Append(effects, LocatorEffect("readFile"))
    /\ IF content = Unreadable
       THEN /\ pc' = "thrown"
            /\ UNCHANGED <<fileLines, selectionLines>>
       ELSE /\ fileLines' = toFileLines(content)
            /\ selectionLines' = toSelectionLines(selection)
            /\ pc' = "search"
    /\ UNCHANGED <<content, selection, hintLine, matchStartLine, result, main, calls, jira, branch>>

\* Lines 146-176: the scans; not found returns null at once.
Search ==
    /\ pc = "search"
    /\ matchStartLine' = search(fileLines, selectionLines, hintLine)
    /\ pc' = IF matchStartLine' = Null THEN "done" ELSE "columns"
    /\ UNCHANGED <<content, selection, hintLine, fileLines, selectionLines,
                   result, effects, main, calls, jira, branch>>

\* Lines 178-209: the columns and the returned span; a failed column lookup
\* warns through Logger.warn and returns null.
Columns ==
    /\ pc = "columns"
    /\ result' = spanOf(fileLines, selectionLines, matchStartLine)
    /\ effects' = IF result' = Null
                  THEN Append(effects, LocatorEffect("warn"))
                  ELSE effects
    /\ pc' = "done"
    /\ UNCHANGED <<content, selection, hintLine, fileLines, selectionLines,
                   matchStartLine, main, calls, jira, branch>>

Next == ReadAndSplit \/ Search \/ Columns

Spec == Init /\ [][Next]_vars

\* The same call on texts whose CR and LF stand anywhere.
InitNewline ==
    /\ pc = "read"
    /\ main = Null
    /\ content \in BreakTexts(MaxBreakDocLen)
    /\ selection \in BreakTexts(MaxBreakSelLen)
    /\ hintLine \in {Null, Some(2)}
    /\ fileLines = <<>>
    /\ selectionLines = <<>>
    /\ matchStartLine = Null
    /\ result = Null
    /\ effects = <<>>
    /\ calls = <<>>
    /\ jira = Null
    /\ branch = Null

SpecNewline == InitNewline /\ [][Next]_vars

(* ------------------------------ the CLI -------------------------------- *)

\* An effect of main on the outside world.
MainEffect(op) == [by |-> "main", op |-> op]

\* Lines 446-457: a selection that is blank after trimming is dropped by the
\* argument parser, so a present selection holds a non-blank character.
CliSelections ==
    {Null} \cup {s \in Texts(SelChars, MaxCliSelLen) :
                     \E i \in 1..Len(s) : s[i] = "a"}

CliFiles == Texts(DocChars, MaxCliDocLen) \cup {Unreadable}

\* Lines 459-477: --line-start and --line-end are absent or positive.
LineStarts == {Null} \cup {Some(n) : n \in 1..MaxCliDocLen}

LineEnds == {Null, Some(2)}

\* Hosts of the remote; Null stands for a failed git command.
SupportedHosts == {Some("github.com"), Some("bitbucket.org")}

RemoteHosts == SupportedHosts \cup {Some("example.org")}

\* Outcomes of starting the opener (lines 685-740).
OpenOutcomes == {"opened", "openFailed", "noCommand"}

\* Deno.exit(code) ends the process where it stands.
Exit(m, code) == [m EXCEPT !.pc = "exited", !.exitCode = Some(code)]

ErrorAndExit == <<MainEffect("error"), MainEffect("exit")>>

locals == <<pc, content, selection, hintLine, fileLines, selectionLines,
            matchStartLine, result>>

InitCli ==
    /\ pc = "idle"
    /\ main \in {[NoMain EXCEPT !.pc = "start",
                                !.selectionTextFromArg = s,
                                !.filePath = f,
                                !.parsedLineStart = ls,
                                !.parsedLineEnd = le] :
                   s \in CliSelections, f \in {Null, Some("src/a.ts")},
                   ls \in LineStarts, le \in LineEnds}
    /\ content \in IF main.filePath = Null THEN {Unreadable} ELSE CliFiles
    /\ selection = <<>>
    /\ hintLine = Null
    /\ fileLines = <<>>
    /\ selectionLines = <<>>
    /\ matchStartLine = Null
    /\ result = Null
    /\ effects = <<>>
    /\ calls = <<>>
    /\ jira = Null
    /\ branch = Null

\* Lines 493-511: the line flags are validated and become the final lines.
mainValidateLines ==
    /\ main.pc = "start"
    /\ IF \/ main.parsedLineEnd # Null /\ main.parsedLineStart = Null
          \/ /\ main.parsedLineStart # Null
             /\ main.parsedLineEnd # Null
             /\ main.parsedLineEnd[1] < main.parsedLineStart[1]
       THEN /\ main' = Exit(main, 1)
            /\ effects' = effects \o ErrorAndExit
       ELSE /\ main' = [main EXCEPT !.pc = "selection",
                                    !.finalLineStart = main.parsedLineStart,
                                    !.finalLineEnd = main.parsedLineEnd]
            /\ UNCHANGED effects
    /\ UNCHANGED <<locals, calls, jira, branch>>

\* Faulty mainLocate: main reads the file before it calls the locator.
mainLocate_CallerReads ==
    /\ main.pc = "selection"
    /\ IF main.selectionTextFromArg # Null
       THEN IF main.filePath = Null
            THEN /\ main' = Exit(main, 1)
                 /\ effects' = effects \o ErrorAndExit
                 /\ UNCHANGED <<locals, calls, jira, branch>>
            ELSE /\ effects' = effects \o <<MainEffect("info"),
                                            MainEffect("readFile")>>
                 /\ main' = [main EXCEPT !.pc = "await"]
                 /\ pc' = "read"
                 /\ selection' = main.selectionTextFromArg
                 /\ hintLine' = main.parsedLineStart
                 /\ UNCHANGED <<content, fileLines, selectionLines,
                                matchStartLine, result, calls, jira, branch>>
       ELSE /\ IF main.finalLineStart # Null /\ main.filePath = Null
               THEN /\ main' = Exit(main, 1)
                    /\ effects' = effects \o ErrorAndExit
               ELSE /\ main' = [main EXCEPT !.pc = "remote"]
                    /\ UNCHANGED effects
            /\ UNCHANGED <<locals, calls, jira, branch>>

\* Lines 513-526 and 544-551: with a selection, main needs a file path and
\* calls the locator with the path, the selection and --line-start as the
\* hint; without one, line flags need a file path.
mainLocate ==
    /\ main.pc = "selection"
    /\ IF main.selectionTextFromArg # Null
       THEN IF main.filePath = Null
            THEN /\ main' = Exit(main, 1)
                 /\ effects' = effects \o ErrorAndExit
                 /\ UNCHANGED <<locals, calls, jira, branch>>
            ELSE /\ effects' = Append(effects, MainEffect("info"))
                 /\ main' = [main EXCEPT !.pc = "await"]
                 /\ pc' = "read"
                 /\ selection' = main.selectionTextFromArg
                 /\ hintLine' = main.parsedLineStart
                 /\ UNCHANGED <<content, fileLines, selectionLines,
                                matchStartLine, result, calls, jira, branch>>
       ELSE /\ IF main.finalLineStart # Null /\ main.filePath = Null
               THEN /\ main' = Exit(main, 1)
                    /\ effects' = effects \o ErrorAndExit
               ELSE /\ main' = [main EXCEPT !.pc = "remote"]
                    /\ UNCHANGED effects
            /\ UNCHANGED <<locals, calls, jira, branch>>

\* Faulty mainHandleRange: a selection that is not found is reported, and the
\* run goes on with the line flags.
mainHandleRange_NoExit ==
    /\ main.pc = "await"
    /\ pc \in {"done", "thrown"}
    /\ IF pc = "thrown"
       THEN /\ main' = Exit(main, 1)
            /\ effects' = effects \o <<MainEffect("error")>> \o ErrorAndExit
       ELSE IF result # Null
       THEN /\ main' = [main EXCEPT !.pc = "remote",
                                    !.finalLineStart = Some(result.startLine),
                                    !.finalLineEnd = Some(result.endLine)]
            /\ effects' = Append(effects, MainEffect("success"))
       ELSE /\ main' = [main EXCEPT !.pc = "remote"]
            /\ effects' = Append(effects, MainEffect("error"))
    /\ UNCHANGED <<locals, calls, jira, branch>>

\* Faulty mainHandleRange: line flags given on the command line win over the
\* span that was found.
mainHandleRange_FlagsWin ==
    /\ main.pc = "await"
    /\ pc \in {"done", "thrown"}
    /\ IF pc = "thrown"
       THEN /\ main' = Exit(main, 1)
            /\ effects' = effects \o <<MainEffect("error")>> \o ErrorAndExit
       ELSE IF result # Null
       THEN /\ main' = [main EXCEPT
                           !.pc = "remote",
                           !.finalLineStart =
                              IF main.parsedLineStart # Null
                              THEN main.parsedLineStart
                              ELSE Some(result.startLine),
                           !.finalLineEnd =
                              IF main.parsedLineEnd # Null
                              THEN main.parsedLineEnd
                              ELSE Some(result.endLine)]
            /\ effects' = Append(effects, MainEffect("success"))
       ELSE /\ main' = Exit(main, 1)
            /\ effects' = effects \o ErrorAndExit
    /\ UNCHANGED <<locals, calls, jira, branch>>

\* Lines 527-543: a found span replaces the final lines; not found, and a
\* rejected call, are reported and end the process with code 1.
mainHandleRange ==
    /\ main.pc = "await"
    /\ pc \in {"done", "thrown"}
    /\ IF pc = "thrown"
       THEN /\ main' = Exit(main, 1)
            /\ effects' = effects \o <<MainEffect("error")>> \o ErrorAndExit
       ELSE IF result # Null
       THEN /\ main' = [main EXCEPT !.pc = "remote",
                                    !.finalLineStart = Some(result.startLine),
                                    !.finalLineEnd = Some(result.endLine)]
            /\ effects' = Append(effects, MainEffect("success"))
       ELSE /\ main' = Exit(main, 1)
            /\ effects' = effects \o ErrorAndExit
    /\ UNCHANGED <<locals, calls, jira, branch>>

\* Lines 554-627: the remote and the branch are asked of git; a failed
\* command ends the process with code 1.
mainRemote ==
    /\ main.pc = "remote"
    /\ \E host \in RemoteHosts \cup {Null} :
          IF host = Null
          THEN /\ main' = Exit(main, 1)
               /\ effects' = effects \o <<MainEffect("git")>> \o ErrorAndExit
          ELSE /\ main' = [main EXCEPT !.pc = "url",
                                       !.providerHostname = host]
               /\ effects' = effects \o <<MainEffect("git"),
                                          MainEffect("info")>>
    /\ UNCHANGED <<locals, calls, jira, branch>>

\* The URL of the repository root.
baseRepoUrl(host) ==
    [host |-> host, path |-> Null, lineStart |-> Null, lineEnd |-> Null]

\* Lines 629-684: the URL is the repository root, or the file with the
\* fragment of the final lines; a file on an unknown host ends the process.
mainBuildUrl ==
    /\ main.pc = "url"
    /\ IF main.filePath # Null /\ main.providerHostname \notin SupportedHosts
       THEN /\ main' = [Exit(main, 1) EXCEPT
                           !.finalUrlToOpen = baseRepoUrl(main.providerHostname)]
            /\ effects' = effects \o ErrorAndExit
       ELSE /\ main' =
                 [main EXCEPT
                    !.pc = "open",
                    !.finalUrlToOpen =
                       IF main.filePath = Null
                       THEN baseRepoUrl(main.providerHostname)
                       ELSE [host |-> main.providerHostname,
                             path |-> main.filePath,
                             lineStart |-> main.finalLineStart,
                             lineEnd |-> IF main.finalLineStart = Null
                                         THEN Null
                                         ELSE main.finalLineEnd]]
            /\ effects' = Append(effects, MainEffect("debug"))
    /\ UNCHANGED <<locals, calls, jira, branch>>

\* Lines 685-740: the opener is started on the URL when the platform has one;
\* its failure is only reported.
mainOpen ==
    /\ main.pc = "open"
    /\ \E outcome \in OpenOutcomes :
          effects' = effects \o
             CASE outcome = "opened" ->
                    <<MainEffect("open"), MainEffect("success")>>
               [] outcome = "openFailed" ->
                    <<MainEffect("open"), MainEffect("error"),
                      MainEffect("log")>>
               [] outcome = "noCommand" ->
                    <<MainEffect("error"), MainEffect("log")>>
    /\ main' = [main EXCEPT !.pc = "finished"]
    /\ UNCHANGED <<locals, calls, jira, branch>>

NextCli ==
    \/ Next
    \/ mainValidateLines
    \/ mainLocate
    \/ mainHandleRange
    \/ mainRemote
    \/ mainBuildUrl
    \/ mainOpen

SpecCli == InitCli /\ [][NextCli]_vars

(* ------------------------ interleaved invocations ---------------------- *)

\* The call sites that may have an invocation of the locator in flight.
Procs == 1..NumCalls

\* The files on disk; no step of the program writes them.
ConcFiles(path) ==
    CASE path = Some("a.ts") -> <<"a", LF, "a">>
      [] path = Some("b.ts") -> <<"b", LF, "a">>

ConcPaths == {Some("a.ts"), Some("b.ts")}

ConcSelections == {<<"a">>, <<"b">>}

ConcHints == {Null, Some(2)}

\* No invocation in flight at a call site.
IdleFrame ==
    [pc |-> "idle", filePath |-> Null, selection |-> <<>>, hintLine |-> Null,
     fileLines |-> <<>>, selectionLines |-> <<>>, matchStartLine |-> Null,
     result |-> Null]

InitConc ==
    /\ calls = [p \in Procs |-> IdleFrame]
    /\ jira = Null
    /\ branch = Null
    /\ pc = "none"
    /\ main = Null
    /\ content = Unreadable
    /\ selection = <<>>
    /\ hintLine = Null
    /\ fileLines = <<>>
    /\ selectionLines = <<>>
    /\ matchStartLine = Null
    /\ result = Null
    /\ effects = <<>>

\* Lines 113-125: a call creates the parameters and locals of the invocation
\* and runs to the await of the read, where the invocation is suspended.
ConcCall(p) ==
    /\ calls[p].pc = "idle"
    /\ \E f \in ConcPaths, s \in ConcSelections, h \in ConcHints :
          calls' = [calls EXCEPT ![p] = [IdleFrame EXCEPT !.pc = "read",
                                                          !.filePath = f,
                                                          !.selection = s,
                                                          !.hintLine = h]]
    /\ UNCHANGED <<locals, effects, main, jira, branch>>

\* Faulty ConcReadAndSplit: fileLines is one variable of the module, shared
\* by the invocations in flight.
ConcReadAndSplit_SharedLines(p) ==
    /\ calls[p].pc = "read"
    /\ calls' =
          [q \in Procs |->
             IF q = p
             THEN [calls[p] EXCEPT
                      !.pc = "search",
                      !.fileLines = toFileLines(ConcFiles(calls[p].filePath)),
                      !.selectionLines = toSelectionLines(calls[p].selection)]
             ELSE IF calls[q].pc \in {"search", "columns"}
             THEN [calls[q] EXCEPT
                      !.fileLines = toFileLines(ConcFiles(calls[p].filePath))]
             ELSE calls[q]]
    /\ UNCHANGED <<locals, effects, main, jira, branch>>

\* Lines 125-129: the read resumes the invocation; fileLines and
\* selectionLines are constants of the invocation.
ConcReadAndSplit(p) ==
    /\ calls[p].pc = "read"
    /\ calls' = [calls EXCEPT
                    ![p].pc = "search",
                    ![p].fileLines = toFileLines(ConcFiles(calls[p].filePath)),
                    ![p].selectionLines = toSelectionLines(calls[p].selection)]
    /\ UNCHANGED <<locals, effects, main, jira, branch>>

\* Faulty ConcSearch: matchStartLine is one variable of the module, shared by
\* the invocations in flight.
ConcSearch_SharedMatch(p) ==
    /\ calls[p].pc = "search"
    /\ LET msl == search(calls[p].fileLines, calls[p].selectionLines,
                         calls[p].hintLine)
       IN calls' =
             [q \in Procs |->
                IF q = p
                THEN [calls[p] EXCEPT
                         !.matchStartLine = msl,
                         !.pc = IF msl = Null THEN "done" ELSE "columns"]
                ELSE IF calls[q].pc = "columns" /\ msl # Null
                THEN [calls[q] EXCEPT !.matchStartLine = msl]
                ELSE calls[q]]
    /\ UNCHANGED <<locals, effects, main, jira, branch>>

\* Lines 146-176: matchStartLine is a local of the invocation.
ConcSearch(p) ==
    /\ calls[p].pc = "search"
    /\ LET msl == search(calls[p].fileLines, calls[p].selectionLines,
                         calls[p].hintLine)
       IN calls' = [calls EXCEPT
                       ![p].matchStartLine = msl,
                       ![p].pc = IF msl = Null THEN "done" ELSE "columns"]
    /\ UNCHANGED <<locals, effects, main, jira, branch>>

\* Lines 178-209: the span is built from the locals of the invocation.
ConcColumns(p) ==
    /\ calls[p].pc = "columns"
    /\ calls' = [calls EXCEPT
                    ![p].result = spanOf(calls[p].fileLines,
                                         calls[p].selectionLines,
                                         calls[p].matchStartLine),
                    ![p].pc = "done"]
    /\ UNCHANGED <<locals, effects, main, jira, branch>>

\* The caller takes the result; the call site is free for another call.
ConcReturn(p) ==
    /\ calls[p].pc = "done"
    /\ calls' = [calls EXCEPT ![p] = IdleFrame]
    /\ UNCHANGED <<locals, effects, main, jira, branch>>

NextConc ==
    \E p \in Procs :
       \/ ConcCall(p)
       \/ ConcReadAndSplit(p)
       \/ ConcSearch(p)
       \/ ConcColumns(p)
       \/ ConcReturn(p)

SpecConc == InitConc /\ [][NextConc]_vars

(* ------------------------ Jira: the branch name ------------------------ *)

\* Line 419: the longest branch name generateGitBranchName means to return.
maxLength == 255

UpperCase ==
    <<"A", "B", "C", "D", "E", "F", "G", "H", "I", "J", "K", "L", "M",
      "N", "O", "P", "Q", "R", "S", "T", "U", "V", "W", "X", "Y", "Z">>

LowerCase ==
    <<"a", "b", "c", "d", "e", "f", "g", "h", "i", "j", "k", "l", "m",
      "n", "o", "p", "q", "r", "s", "t", "u", "v", "w", "x", "y", "z">>

Digits == {"0", "1", "2", "3", "4", "5", "6", "7", "8", "9"}

\* The characters \s matches, among those of the texts.
WhiteSpace == {" ", "\t", LF, CR}

\* String.prototype.toLowerCase
toLowerCase(t) ==
    [i \in 1..Len(t) |->
        IF \E k \in 1..Len(UpperCase) : UpperCase[k] = t[i]
        THEN LowerCase[CHOOSE k \in 1..Len(UpperCase) : UpperCase[k] = t[i]]
        ELSE t[i]]

\* replace(/[^a-z0-9\s-]/g, "")
removeDisallowed(t) ==
    SelectSeq(t, LAMBDA c : \/ \E k \in 1..Len(LowerCase) : LowerCase[k] = c
                            \/ c \in Digits
                            \/ c \in WhiteSpace
                            \/ c = "-")

\* replace(/\s+/g, "-"): the first character of every run of white space
\* becomes a hyphen and the rest of the run goes.
replaceSpaceRuns(t) ==
    LET tagged == [i \in 1..Len(t) |->
                      [c |-> IF t[i] \in WhiteSpace THEN "-" ELSE t[i],
                       keep |-> \/ t[i] \notin WhiteSpace
                                \/ i = 1
                                \/ t[i - 1] \notin WhiteSpace]]
        kept == SelectSeq(tagged, LAMBDA e : e.keep)
    IN [i \in 1..Len(kept) |-> kept[i].c]

\* replace(/-+/g, "-"): the first hyphen of every run stays.
replaceHyphenRuns(t) ==
    LET tagged == [i \in 1..Len(t) |->
                      [c |-> t[i],
                       keep |-> t[i] # "-" \/ i = 1 \/ t[i - 1] # "-"]]
        kept == SelectSeq(tagged, LAMBDA e : e.keep)
    IN [i \in 1..Len(kept) |-> kept[i].c]

normalizeForBranchName(text) ==
    replaceHyphenRuns(replaceSpaceRuns(removeDisallowed(toLowerCase(text))))

\* String.prototype.substring: both ends are clamped to the string and put
\* in order.
substring(t, indexStart, indexEnd) ==
    LET clamp(x) == IF x < 0 THEN 0 ELSE IF x > Len(t) THEN Len(t) ELSE x
        a == clamp(indexStart)
        b == clamp(indexEnd)
    IN IF a <= b THEN SubSeq(t, a + 1, b) ELSE SubSeq(t, b + 1, a)

\* replace(/-$/, "")
stripTrailingHyphen(t) ==
    IF t # <<>> /\ t[Len(t)] = "-" THEN SubSeq(t, 1, Len(t) - 1) ELSE t

\* Line 415: the suffix is used when it is given and not empty.
contentOf(summary, suffix) ==
    IF suffix # Null /\ suffix[1] # <<>> THEN suffix[1] ELSE summary

generateGitBranchName(key, summary, suffix) ==
    LET normalized == normalizeForBranchName(contentOf(summary, suffix))
        prefix == Append(key, "-")
        normalizedContent ==
            IF Len(prefix \o normalized) > maxLength
            THEN substring(normalized, 0, maxLength - Len(prefix))
            ELSE normalized
    IN stripTrailingHyphen(prefix \o normalizedContent)

\* An issue key of n characters.
KeyOf(n) ==
    [i \in 1..n |-> IF i = n THEN "1" ELSE IF i = n - 1 THEN "-" ELSE "K"]

IssueKeys ==
    {KeyOf(n) : n \in {4, maxLength - 2, maxLength - 1, maxLength,
                       maxLength + 1}}

BranchChars == {"A", "b", " ", "-", "!"}

\* A text of n characters in which every second character is a blank.
LongText(n) == [i \in 1..n |-> IF i % 2 = 0 THEN " " ELSE "a"]

Summaries ==
    UNION {[1..k -> BranchChars] : k \in 0..MaxBranchTextLen}
        \cup {LongText(n) : n \in (maxLength - 6)..(maxLength + 1)}

Suffixes == {Null, Some(<<>>), Some(<<"F", "i", "x", " ">>)}

outside == <<locals, effects, main, calls>>

InitBranch ==
    /\ branch \in {[NoBranch EXCEPT !.pc = "call", !.key = k,
                                    !.summary = s, !.suffix = x] :
                      k \in IssueKeys, s \in Summaries, x \in Suffixes}
    /\ jira = Null
    /\ calls = <<>>
    /\ pc = "none"
    /\ main = Null
    /\ content = Unreadable
    /\ selection = <<>>
    /\ hintLine = Null
    /\ fileLines = <<>>
    /\ selectionLines = <<>>
    /\ matchStartLine = Null
    /\ result = Null
    /\ effects = <<>>

\* Lines 414-421: the content is normalised and put after the key.
branchNormalize ==
    /\ branch.pc = "call"
    /\ LET normalized ==
              normalizeForBranchName(contentOf(branch.summary, branch.suffix))
       IN branch' = [branch EXCEPT
                        !.pc = "truncate",
                        !.normalizedContent = normalized,
                        !.branchName = Append(branch.key, "-") \o normalized]
    /\ UNCHANGED <<outside, jira>>

\* Lines 423-426: a name that is too long has its content cut to the room
\* the prefix leaves.
branchTruncate ==
    /\ branch.pc = "truncate"
    /\ branch' = [branch EXCEPT
                     !.pc = "cleanup",
                     !.normalizedContent =
                        IF Len(branch.branchName) > maxLength
                        THEN substring(branch.normalizedContent, 0,
                                       maxLength - (Len(branch.key) + 1))
                        ELSE branch.normalizedContent]
    /\ UNCHANGED <<outside, jira>>

\* Lines 428-430: the name is put together again, one hyphen at its end is
\* removed, and it is returned.
branchCleanup ==
    /\ branch.pc = "cleanup"
    /\ branch' = [branch EXCEPT
                     !.pc = "returned",
                     !.branchName =
                        stripTrailingHyphen(Append(branch.key, "-")
                                            \o branch.normalizedContent)]
    /\ UNCHANGED <<outside, jira>>

NextBranch == branchNormalize \/ branchTruncate \/ branchCleanup

SpecBranch == InitBranch /\ [][NextBranch]_vars

(* -------------------------- Jira: the create command ------------------- *)

\* An effect of the Jira script on the outside world.
JiraEffect(op) == [by |-> "jira", op |-> op]

\* A value JavaScript takes for true: given, and not the empty string.
truthy(v) == v # Null /\ v[1] # ""

\* The same for a text kept as a sequence of characters.
truthyText(v) == v # Null /\ v[1] # <<>>

Commands ==
    {Null, Some("help"), Some("me"), Some("create"), Some("open"),
     Some("ticket"), Some("git-branch"), Some("bogus")}

\* Line 528-532: what parse makes of the options on the command line; an
\* option is stored under the name it was typed with.
Flags ==
    [title : {Null, Some(<<>>), Some(<<"F", "i", "x">>)},
     project : {Null, Some("PROJ")},
     issuetype : {Null, Some("Story"), Some("Task")},
     issueType : {Null, Some(""), Some("Epic")},
     suffix : {Null, Some(<<"w", "i", "p">>)},
     checkout : BOOLEAN,
     open : BOOLEAN]

InitJira ==
    /\ jira \in {[NoJira EXCEPT !.pc = "start", !.command = c,
                                !.credentials = k, !.flags = f] :
                    c \in Commands, k \in BOOLEAN, f \in Flags}
    /\ branch = Null
    /\ calls = <<>>
    /\ pc = "none"
    /\ main = Null
    /\ content = Unreadable
    /\ selection = <<>>
    /\ hintLine = Null
    /\ fileLines = <<>>
    /\ selectionLines = <<>>
    /\ matchStartLine = Null
    /\ result = Null
    /\ effects = <<>>

jiraRest == <<locals, main, calls, branch>>

\* Lines 534-555: help, the credentials, and the choice of the command.
jiraDispatch ==
    /\ jira.pc = "start"
    /\ IF jira.command = Null \/ jira.command = Some("help")
       THEN /\ jira' = [jira EXCEPT !.pc = "returned"]
            /\ effects' = Append(effects, JiraEffect("printHelp"))
       ELSE IF ~jira.credentials
       THEN /\ jira' = [jira EXCEPT !.pc = "returned"]
            /\ effects' = Append(effects, JiraEffect("error"))
       ELSE /\ jira' = [jira EXCEPT
                          !.pc = IF jira.command = Some("create")
                                 THEN "create" ELSE "other"]
            /\ UNCHANGED effects
    /\ UNCHANGED jiraRest

\* Lines 557-577 and 646-777: the other commands, and the unknown one.
jiraOther ==
    /\ jira.pc = "other"
    /\ jira' = [jira EXCEPT !.pc = "returned"]
    /\ effects' = Append(effects,
                         IF jira.command = Some("bogus")
                         THEN JiraEffect("error")
                         ELSE JiraEffect("request"))
    /\ UNCHANGED jiraRest

\* Lines 580-592: the arguments of create.
jiraCreateArgs ==
    /\ jira.pc = "create"
    /\ IF ~truthyText(jira.flags.title) \/ ~truthy(jira.flags.project)
       THEN /\ jira' = [jira EXCEPT
                          !.pc = "returned",
                          !.issueType = IF truthy(jira.flags.issueType)
                                        THEN jira.flags.issueType[1]
                                        ELSE "Task"]
            /\ effects' = Append(effects, JiraEffect("error"))
       ELSE /\ jira' = [jira EXCEPT
                          !.pc = "getSelf",
                          !.issueType = IF truthy(jira.flags.issueType)
                                        THEN jira.flags.issueType[1]
                                        ELSE "Task"]
            /\ effects' = Append(effects, JiraEffect("log"))
    /\ UNCHANGED jiraRest

\* Lines 594-596: the ticket is assigned to the user when the user is known.
jiraGetSelf ==
    /\ jira.pc = "getSelf"
    /\ \E self \in {Null, Some("account-1")} :
          jira' = [jira EXCEPT !.pc = "post", !.assigneeId = self]
    /\ effects' = Append(effects, JiraEffect("request"))
    /\ UNCHANGED jiraRest

\* Lines 598 and 277-300: createTicket posts the fields; created is the body
\* that was sent.
jiraCreateTicket ==
    /\ jira.pc = "post"
    /\ \E response \in {Null, Some(<<"P", "R", "O", "J", "-", "7">>)} :
          jira' = [jira EXCEPT
                      !.pc = IF response = Null THEN "returned"
                             ELSE "created",
                      !.created = [project |-> jira.flags.project[1],
                                   summary |-> jira.flags.title[1],
                                   issuetype |-> jira.issueType,
                                   assignee |-> jira.assigneeId],
                      !.newTicketInfo = response]
    /\ effects' = Append(effects, JiraEffect("request"))
    /\ UNCHANGED jiraRest

\* Lines 600-643: the transition to In Progress, the browser and the branch,
\* as the flags ask.
jiraAfterCreate ==
    /\ jira.pc = "created"
    /\ jira' = [jira EXCEPT
                   !.pc = "returned",
                   !.branchName =
                      IF jira.flags.checkout
                      THEN generateGitBranchName(jira.newTicketInfo[1],
                                                 jira.flags.title[1],
                                                 jira.flags.suffix)
                      ELSE <<>>]
    /\ effects' = effects
                    \o <<JiraEffect("log")>>
                    \o (IF jira.flags.checkout
                        THEN <<JiraEffect("request")>> ELSE <<>>)
                    \o (IF jira.flags.open
                        THEN <<JiraEffect("open")>> ELSE <<>>)
                    \o (IF jira.flags.checkout
                        THEN <<JiraEffect("git")>> ELSE <<>>)
    /\ UNCHANGED jiraRest

NextJira ==
    \/ jiraDispatch
    \/ jiraOther
    \/ jiraCreateArgs
    \/ jiraGetSelf
    \/ jiraCreateTicket
    \/ jiraAfterCreate

SpecJira == InitJira /\ [][NextJira]_vars

(* ------------------------- vocabulary of the claims -------------------- *)

Done == pc = "done"

selLen == Len(selectionLines)

\* A valid alignment of the selection at 0-based document index i.
ValidAt(i) ==
    /\ 0 <= i
    /\ i + selLen <= Len(fileLines)
    /\ \A k \in 0..(selLen - 1) :
           \E off \in 0..Len(fileLines[i + k + 1]) :
               OccursAt(fileLines[i + k + 1], selectionLines[k + 1], off)

\* Every index at which the selection aligns.
ValidSet == {i \in 0..(Len(fileLines) - selLen) : ValidAt(i)}

\* The selection lines equal the document lines of the block starting at i.
VerbatimAt(i) ==
    /\ 0 <= i
    /\ i + selLen <= Len(fileLines)
    /\ \A k \in 0..(selLen - 1) : fileLines[i + k + 1] = selectionLines[k + 1]

MinOf(S) == CHOOSE x \in S : \A y \in S : x <= y

MaxOf(S) == CHOOSE x \in S : \A y \in S : y <= x

HintInRange == hintLine # Null /\ 1 <= hintLine[1] /\ hintLine[1] <= Len(fileLines)

\* off is the 0-based offset of the first occurrence of target in line.
FirstOccurrence(line, target, off) ==
    /\ OccursAt(line, target, off)
    /\ \A o \in 0..(off - 1) : ~OccursAt(line, target, o)

(* -------------------------------- claims ------------------------------- *)

\* C1: whenever a span is returned, startLine - 1 is a valid alignment: the
\* window lies inside the document and every document line of the window
\* contains the corresponding selection line.
C1_Soundness ==
    (Done /\ result # Null) => ValidAt(result.startLine - 1)

C1_Witness ==
    /\ Done /\ result # Null
    /\ selLen >= 2 /\ \A k \in 1..selLen : selectionLines[k] # <<>>
    /\ result.startLine > 1

\* C2: with no hint and at least one valid alignment, the span starts at the
\* smallest valid index plus one.
C2_UnhintedFirstMatch ==
    (Done /\ hintLine = Null /\ ValidSet # {})
        => (result # Null /\ result.startLine = MinOf(ValidSet) + 1)

C2_Witness ==
    /\ Done /\ hintLine = Null /\ result # Null
    /\ selection # <<>>
    /\ Cardinality(ValidSet) >= 2
    /\ MinOf(ValidSet) >= 1

\* C3: with a hint in range and a valid alignment at or after h = hintLine - 1,
\* the span starts at the smallest valid index >= h plus one, whatever matches
\* lie before h; so a hint on a matching line returns that line.
C3_HintedForward ==
    (Done /\ HintInRange /\ (\E i \in ValidSet : i >= hintLine[1] - 1))
        => /\ result # Null
           /\ result.startLine
                  = MinOf({i \in ValidSet : i >= hintLine[1] - 1}) + 1
           /\ (hintLine[1] - 1) \in ValidSet => result.startLine = hintLine[1]

C3_Witness ==
    /\ Done /\ HintInRange /\ result # Null
    /\ selection # <<>>
    /\ Cardinality(ValidSet) = 2
    /\ hintLine[1] - 1 = MaxOf(ValidSet)
    /\ result.startLine = hintLine[1]

\* C4: with a hint in range, no valid alignment at or after h and one before
\* h, the span starts at the largest valid index < h plus one; a selection
\* matching only at p with hintLine = p + 3 resolves to p + 1.
C4_HintedBackward ==
    /\ (Done /\ HintInRange
          /\ ~(\E i \in ValidSet : i >= hintLine[1] - 1)
          /\ (\E i \in ValidSet : i < hintLine[1] - 1))
         => /\ result # Null
            /\ result.startLine
                   = MaxOf({i \in ValidSet : i < hintLine[1] - 1}) + 1
    /\ \A p \in ValidSet :
           (Done /\ ValidSet = {p} /\ hintLine = Some(p + 3))
               => (result # Null /\ result.startLine = p + 1)

C4_Witness ==
    /\ Done /\ HintInRange /\ result # Null
    /\ selection = <<"a">>
    /\ Cardinality(ValidSet) = 2
    /\ \A i \in ValidSet : i < hintLine[1] - 1
    /\ result.startLine = MaxOf(ValidSet) + 1

C4_WitnessRecovery ==
    /\ Done /\ HintInRange /\ result # Null
    /\ selection = <<"a">>
    /\ \E p \in ValidSet : ValidSet = {p} /\ hintLine = Some(p + 3)

\* C5: when exactly one index is a valid alignment, every hint (absent, in
\* range, out of range) gives the span this run returned.
C5_HintConvergence ==
    (Done /\ Cardinality(ValidSet) = 1)
        => \A h \in Hints :
               getSelectionPosition(content, selection, h) = result

C5_Witness ==
    /\ Done /\ Cardinality(ValidSet) = 1 /\ result # Null
    /\ selection = <<"a">>
    /\ Len(fileLines) >= 3
    /\ HintInRange /\ hintLine[1] - 1 > MinOf(ValidSet)

\* C6: when no index is a valid alignment the result is null, whatever the
\* hint.
C6_Absence ==
    (Done /\ ValidSet = {}) => result = Null

C6_Witness ==
    /\ Done /\ ValidSet = {} /\ result = Null
    /\ selection = <<"a", "a">>
    /\ HintInRange /\ hintLine[1] >= 2 /\ selLen <= Len(fileLines)

\* C7 as stated: with no hint, a selection that appears verbatim as the block
\* of document lines starting at index i is reported at startLine = i + 1.
C7_Original ==
    \A i \in 0..Len(fileLines) :
        (Done /\ hintLine = Null /\ VerbatimAt(i))
            => (result # Null /\ result.startLine = i + 1)

\* C7 amended: with no hint, a selection that appears verbatim at index i is
\* reported at startLine <= i + 1, and at exactly i + 1 when no index below i
\* is a valid alignment.
C7_NoHintVerbatim ==
    \A i \in 0..Len(fileLines) :
        (Done /\ hintLine = Null /\ VerbatimAt(i))
            => /\ result # Null
               /\ result.startLine <= i + 1
               /\ (\A j \in 0..(i - 1) : ~ValidAt(j))
                      => result.startLine = i + 1

C7_Witness ==
    /\ Done /\ hintLine = Null /\ result # Null
    /\ \E i \in 1..Len(fileLines) :
           /\ VerbatimAt(i)
           /\ \A j \in 0..(i - 1) : ~ValidAt(j)
           /\ result.startLine = i + 1

\* C8: a hint that is <= 0 or beyond the last line gives the result of the
\* call with no hint.
C8_UnusableHintIgnored ==
    (Done /\ hintLine # Null
          /\ (hintLine[1] <= 0 \/ hintLine[1] > Len(fileLines)))
        => result = getSelectionPosition(content, selection, Null)

C8_Witness ==
    /\ Done /\ hintLine # Null /\ hintLine[1] = Len(fileLines) + 1
    /\ result # Null /\ selection # <<>>
    /\ Cardinality(ValidSet) >= 2

\* C9: a returned span for the match at index i has startLine = i + 1 and
\* endLine = i + selLen, so endLine = startLine + selLen - 1 and
\* 1 <= startLine <= endLine <= number of document lines.
C9_LineSpan ==
    (Done /\ result # Null)
        => /\ result.startLine = matchStartLine[1]
           /\ (result.startLine - 1) \in ValidSet
           /\ result.endLine = (result.startLine - 1) + selLen
           /\ result.endLine = result.startLine + selLen - 1
           /\ 1 <= result.startLine
           /\ result.startLine <= result.endLine
           /\ result.endLine <= Len(fileLines)
           /\ selLen = 3 => result.endLine = result.startLine + 2

C9_Witness ==
    /\ Done /\ result # Null
    /\ selLen = 3 /\ selectionLines[2] # <<>>
    /\ result.endLine = result.startLine + 2

\* C10: startColumn is the offset of the first occurrence of the first
\* selection line in the first matched line, plus one; endColumn is the offset
\* of the first occurrence of the last selection line in the last matched
\* line, plus one, plus its length, minus one.  The documented example gives
\* columns 3 and 14.
C10_Columns ==
    /\ (Done /\ result # Null)
         => /\ FirstOccurrence(fileLines[result.startLine],
                               selectionLines[1],
                               result.startColumn - 1)
            /\ \E off \in 0..Len(fileLines[result.endLine]) :
                   /\ FirstOccurrence(fileLines[result.endLine],
                                      selectionLines[selLen], off)
                   /\ result.endColumn
                          = off + 1 + Len(selectionLines[selLen]) - 1
    /\ (Done /\ content = ExampleLine /\ selection = ExampleSelection)
         => /\ result # Null
            /\ result.startColumn = 3
            /\ result.endColumn = 14

C10_Witness ==
    /\ Done /\ content = ExampleLine /\ selection = ExampleSelection
    /\ result # Null /\ result.startColumn = 3

C10_WitnessMultiLine ==
    /\ Done /\ result # Null /\ selLen >= 2
    /\ result.startColumn >= 2 /\ selectionLines[selLen] # <<>>

\* The effects of the locator.
LocatorEffects ==
    {i \in 1..Len(effects) : effects[i].by = "getSelectionPosition"}

\* C11 as stated: the four fields of every returned span are >= 1.  The
\* documentation of getSelectionPosition promises 1-based fields too.
C11_AllFieldsPositive ==
    (Done /\ result # Null)
        => /\ result.startLine >= 1
           /\ result.startColumn >= 1
           /\ result.endLine >= 1
           /\ result.endColumn >= 1

\* C12: the worked example, lines "function f() {", "  return 1;", "}" with
\* selection "return 1;" and no hint, returns lines 2-2, columns 3-11.
C12_WorkedExample ==
    (Done /\ content = ExampleDocument /\ selection = ExampleReturn
          /\ hintLine = Null)
        => result = [startLine |-> 2, startColumn |-> 3,
                     endLine |-> 2, endColumn |-> 11]

C12_Witness ==
    /\ Done /\ content = ExampleDocument /\ selection = ExampleReturn
    /\ hintLine = Null /\ result # Null /\ result.startLine = 2

FileReads == {i \in 1..Len(effects) : effects[i].op = "readFile"}

C16_NoLogNoExit ==
    \A i \in LocatorEffects : effects[i].op = "readFile"

C16_Witness ==
    /\ Done /\ result # Null
    /\ selLen = 2 /\ selectionLines[1] = <<>> /\ selectionLines[2] = <<>>
    /\ Len(effects) = 1

\* C18: no scan runs with selLen = 0: every selection, the empty one too,
\* normalises to at least one line, so no selection of zero lines reaches
\* matchesAt.
C18_SelectionHasLines ==
    /\ Len(toSelectionLines(selection)) >= 1
    /\ pc \in {"search", "columns", "done"} => selLen >= 1

C18_Witness ==
    /\ Done /\ selection = <<>> /\ selLen = 1 /\ result # Null

\* Position i of text t holds a CRLF line break.
IsCRLF(t, i) == i < Len(t) /\ t[i] = CR /\ t[i + 1] = LF

\* Position i of text t holds an LF line break (an LF that ends no CRLF).
IsBareLF(t, i) == t[i] = LF /\ (i = 1 \/ t[i - 1] # CR)

\* t with the line break at position i replaced by the other kind.
FlipBreak(t, i) ==
    IF IsCRLF(t, i) THEN SubSeq(t, 1, i - 1) \o SubSeq(t, i + 1, Len(t))
    ELSE IF IsBareLF(t, i)
         THEN SubSeq(t, 1, i - 1) \o <<CR>> \o SubSeq(t, i, Len(t))
         ELSE t

\* t with every LF line break replaced by CRLF.
RECURSIVE AllToCRLF(_)
AllToCRLF(t) ==
    IF \E i \in 1..Len(t) : IsBareLF(t, i)
    THEN AllToCRLF(FlipBreak(t, CHOOSE i \in 1..Len(t) : IsBareLF(t, i)))
    ELSE t

\* t with every CRLF line break replaced by LF, in one pass from the left.
RECURSIVE AllToLF(_)
AllToLF(t) ==
    IF Len(t) = 0 THEN <<>>
    ELSE IF IsCRLF(t, 1) THEN <<LF>> \o AllToLF(SubSeq(t, 3, Len(t)))
         ELSE <<t[1]>> \o AllToLF(Tail(t))

\* t itself and t with one or all of its line breaks replaced.
BreakVariants(t) ==
    {t, AllToCRLF(t), AllToLF(t)} \cup {FlipBreak(t, i) : i \in 1..Len(t)}

\* A CR stands right before a CRLF line break of t.
CRBeforeCRLF(t) ==
    \E i \in 1..Len(t) : t[i] = CR /\ IsCRLF(t, i + 1)

\* C19 as stated: replacing LF line breaks by CRLF, or CRLF by LF, in the
\* document, the selection or both never changes the result.
C19_BreaksIrrelevant ==
    Done => \A d \in BreakVariants(content), s \in BreakVariants(selection) :
                getSelectionPosition(d, s, hintLine) = result

\* C19 amended: the same, for texts in which no CR stands right before a
\* CRLF line break; and the lines searched hold no LF.
C19_BreaksIrrelevantNoStrayCR ==
    /\ (Done /\ ~CRBeforeCRLF(content) /\ ~CRBeforeCRLF(selection))
         => \A d \in BreakVariants(content), s \in BreakVariants(selection) :
                getSelectionPosition(d, s, hintLine) = result
    /\ Done => /\ \A k \in 1..Len(fileLines) :
                      \A j \in 1..Len(fileLines[k]) : fileLines[k][j] # LF
               /\ \A k \in 1..selLen :
                      \A j \in 1..Len(selectionLines[k]) :
                          selectionLines[k][j] # LF

C19_Witness ==
    /\ Done /\ result # Null /\ result.endLine = 2
    /\ ~CRBeforeCRLF(content) /\ ~CRBeforeCRLF(selection)
    /\ \E i \in 1..Len(content) : IsCRLF(content, i)
    /\ \E i \in 1..Len(selection) : IsBareLF(selection, i)
    /\ \E k \in 1..selLen : selectionLines[k] # <<>>

\* The locator was called by main, came back without a span, and main has
\* taken the outcome.
FailedLookup ==
    /\ main.pc # "await"
    /\ pc = "thrown" \/ (pc = "done" /\ result = Null)

\* C20: when the selection given with a file path is not found, or the file
\* cannot be read, main reports an error and exits with code 1; no git
\* command is run, no URL is built and nothing is opened in that run.
C20_NotFoundExits ==
    FailedLookup =>
        /\ main.selectionTextFromArg # Null /\ main.filePath # Null
        /\ main.pc = "exited"
        /\ main.exitCode = Some(1)
        /\ main.finalUrlToOpen = Null
        /\ main.providerHostname = Null
        /\ \E i \in 1..Len(effects) : effects[i] = MainEffect("error")
        /\ effects[Len(effects)] = MainEffect("exit")
        /\ \A i \in 1..Len(effects) :
              effects[i].op \notin {"git", "debug", "open"}

C20_Witness ==
    /\ FailedLookup /\ pc = "done"
    /\ main.parsedLineStart = Some(2) /\ main.parsedLineEnd = Some(2)
    /\ Len(fileLines) = 2

C20_WitnessReadFailure ==
    /\ FailedLookup /\ pc = "thrown"
    /\ main.exitCode = Some(1)

\* What the invocation at call site p returns when it runs alone.
Alone(p) ==
    getSelectionPosition(ConcFiles(calls[p].filePath), calls[p].selection,
                         calls[p].hintLine)

\* C13: two invocations that have returned on the same document text, the
\* same selection text and the same hint have returned the same result,
\* whatever other invocations ran before them or between them.
C13_Deterministic ==
    \A p, q \in Procs :
       (/\ calls[p].pc = "done" /\ calls[q].pc = "done"
        /\ ConcFiles(calls[p].filePath) = ConcFiles(calls[q].filePath)
        /\ calls[p].selection = calls[q].selection
        /\ calls[p].hintLine = calls[q].hintLine)
       => calls[p].result = calls[q].result

C13_Witness ==
    /\ calls[1].pc = "done" /\ calls[2].pc = "done"
    /\ calls[1].filePath = calls[2].filePath
    /\ calls[1].selection = calls[2].selection
    /\ calls[1].hintLine = Some(2) /\ calls[2].hintLine = Some(2)
    /\ calls[1].result # Null /\ calls[1].result.startLine = 2

\* C17: however the invocations interleave, the line arrays and the match
\* position of each hold what its own arguments give, and each returns what
\* it returns when run alone.
C17_Isolated ==
    \A p \in Procs :
       /\ calls[p].pc \in {"search", "columns", "done"} =>
             /\ calls[p].fileLines = toFileLines(ConcFiles(calls[p].filePath))
             /\ calls[p].selectionLines = toSelectionLines(calls[p].selection)
       /\ calls[p].pc = "columns" =>
             calls[p].matchStartLine =
                search(calls[p].fileLines, calls[p].selectionLines,
                       calls[p].hintLine)
       /\ calls[p].pc = "done" => calls[p].result = Alone(p)

C17_Witness ==
    /\ calls[1].pc = "done" /\ calls[1].result # Null
    /\ calls[2].pc = "columns"
    /\ calls[2].fileLines # calls[1].fileLines
    /\ calls[2].matchStartLine # calls[1].matchStartLine


\* The locator was called by main and handed a span back, and main has taken
\* it.
FoundBySelection ==
    /\ main.pc \notin {"start", "selection", "await"}
    /\ pc = "done" /\ result # Null

\* C21: when the selection is found, the final lines, and the lines of the
\* fragment of every URL built for the file, are the span's startLine and
\* endLine, whatever --line-start and --line-end said; --line-start was the
\* hint of the search.
C21_SelectionOverridesFlags ==
    FoundBySelection =>
        /\ hintLine = main.parsedLineStart
        /\ main.finalLineStart = Some(result.startLine)
        /\ main.finalLineEnd = Some(result.endLine)
        /\ main.pc \in {"open", "finished"} =>
              /\ main.finalUrlToOpen.lineStart = Some(result.startLine)
              /\ main.finalUrlToOpen.lineEnd = Some(result.endLine)

C21_Witness ==
    /\ FoundBySelection /\ main.pc = "finished"
    /\ main.parsedLineStart = Some(1) /\ main.parsedLineEnd = Some(2)
    /\ result.startLine = 2 /\ result.endLine = 3
    /\ main.finalUrlToOpen.lineStart = Some(2)
    /\ main.finalUrlToOpen.lineEnd = Some(3)

\* C24: when some index is a valid alignment, a span is returned and it
\* starts at a valid alignment, for every hint: absent, in range or out of
\* range.
C24_CompleteUnderAnyHint ==
    (Done /\ ValidSet # {})
        => /\ result # Null
           /\ result.startLine - 1 \in ValidSet

C24_Witness ==
    /\ Done /\ Cardinality(ValidSet) >= 2 /\ result # Null
    /\ HintInRange /\ result.startLine - 1 # MinOf(ValidSet)

C24_WitnessOutOfRange ==
    /\ Done /\ ValidSet # {} /\ result # Null
    /\ hintLine # Null /\ hintLine[1] > Len(fileLines)

\* C25: once a scan has set matchStartLine, both column lookups succeed, for
\* empty selection lines too; a span is returned and the warning of the
\* failed lookup is never emitted.
C25_ColumnLookupSucceeds ==
    /\ pc = "columns" =>
          /\ findColumn(fileLines[matchStartLine[1]], selectionLines[1]) >= 1
          /\ findColumn(fileLines[matchStartLine[1] + selLen - 1],
                        selectionLines[selLen]) >= 1
    /\ (Done /\ matchStartLine # Null) => result # Null
    /\ \A i \in 1..Len(effects) : effects[i].op # "warn"

C25_Witness ==
    /\ Done /\ matchStartLine # Null /\ result # Null
    /\ selLen = 1 /\ selectionLines[1] = <<>>
    /\ fileLines[matchStartLine[1]] # <<>>

\* C26: with the hint in range, the scan down from the hint and the scan up
\* from just above it leave no feasible start index untested: when the
\* hinted attempt finds nothing, no index is a valid alignment, the full
\* scan finds nothing and the result is null.
C26_HintedScansCoverAll ==
    (pc \in {"columns", "done"} /\ HintInRange)
        => /\ hintedSearch(fileLines, selectionLines, hintLine) = Null
                => /\ ValidSet = {}
                   /\ scan(fileLines, selectionLines, 0, "down", Null) = Null
                   /\ matchStartLine = Null
                   /\ Done /\ result = Null
           /\ ValidSet # {}
                => hintedSearch(fileLines, selectionLines, hintLine)
                       = matchStartLine

C26_Witness ==
    /\ Done /\ HintInRange /\ hintLine[1] = 2
    /\ Len(fileLines) >= 3 /\ selLen = 1 /\ selectionLines[1] # <<>>
    /\ hintedSearch(fileLines, selectionLines, hintLine) = Null
    /\ result = Null

\* C27: the columns of a span lie inside the matched lines, and for a
\* selection of one line they delimit one occurrence of it.
C27_ColumnBounds ==
    (Done /\ result # Null)
        => /\ result.startColumn <= Len(fileLines[result.startLine]) + 1
           /\ result.endColumn <= Len(fileLines[result.endLine])
           /\ selLen = 1
                => /\ result.endColumn - result.startColumn + 1
                          = Len(selectionLines[1])
                   /\ \A j \in 1..Len(selectionLines[1]) :
                          fileLines[result.startLine][result.startColumn + j - 1]
                              = selectionLines[1][j]

C27_Witness ==
    /\ Done /\ result # Null /\ selLen = 1
    /\ Len(selectionLines[1]) = 2 /\ result.startColumn = 2
    /\ result.endColumn < Len(fileLines[result.endLine])

\* C22: the ticket is created with the type given by --issuetype, and with
\* "Task" only when the option is not given.  The help text of the script
\* documents the option so.
C22_IssueTypeFromOption ==
    jira.created # Null
        => jira.created.issuetype = IF jira.flags.issuetype # Null
                                    THEN jira.flags.issuetype[1]
                                    ELSE "Task"

\* C23: the branch name generateGitBranchName returns has at most 255
\* characters, whatever the issue key, the summary and the suffix.
C23_AtMost255 ==
    branch.pc = "returned" => Len(branch.branchName) <= maxLength

====
